---- MODULE Spec2Model ----
(***************************************************************************)
(* A model of robot.libraries.XML: element retrieval, text extraction, the *)
(* recursive ElementComparator and the Location breadcrumb it reports.     *)
(*                                                                         *)
(* Strings whose characters matter (tags, attribute names and values,      *)
(* texts, tails) are tuples of one-character strings; messages and         *)
(* Location paths are TLA+ strings built by concatenation.                 *)
(***************************************************************************)
EXTENDS Integers, Sequences, FiniteSets, TLC

VARIABLES docSource, docExpected, heap, call, outcome, history

vars == <<docSource, docExpected, heap, call, outcome, history>>

(***************************************************************************)
(* Bounds of the model.                                                    *)
(***************************************************************************)
\* Largest number of nodes of a generated element tree.
MaxNodes == 4
\* Largest number of nodes of a tree texts are extracted from.
MaxTextNodes == 3
\* Longest generated text, tail or attribute value with whitespace in it.
MaxTextLen == 4
\* Largest number of child() calls made on Location objects.
MaxCalls == 4

(***************************************************************************)
(* Strings.                                                                *)
(***************************************************************************)
\* Python's None, for an absent text or tail: a tuple no string equals,
\* every character of a string being a one-character string.
None == <<"None">>

\* The characters re's \s and str.strip() treat as whitespace.
Whitespace == {" ", "\n"}

\* ord(): the code points of the characters the model uses.
Ord(c) ==
    CASE c = "\n" -> 10 [] c = " " -> 32 [] c = "*" -> 42 [] c = "?" -> 63
      [] c = "a" -> 97 [] c = "b" -> 98 [] c = "c" -> 99 [] c = "k" -> 107
      [] c = "m" -> 109 [] c = "n" -> 110 [] c = "v" -> 118 [] c = "w" -> 119
      [] c = "x" -> 120 [] c = "y" -> 121 [] c = "X" -> 88 [] c = "Y" -> 89
      [] c = "Z" -> 90

\* The string of a tuple of characters, as the % formatting writes it.
RECURSIVE Str(_)
Str(s) == IF s = <<>> THEN "" ELSE s[1] \o Str(Tail(s))

\* a < b on strings: lexicographic by code point.
RECURSIVE StrLess(_, _)
StrLess(a, b) ==
    IF b = <<>> THEN FALSE
    ELSE IF a = <<>> THEN TRUE
    ELSE IF a[1] = b[1] THEN StrLess(Tail(a), Tail(b))
    ELSE Ord(a[1]) < Ord(b[1])

\* sorted(): insertion of each name into the sorted rest.
RECURSIVE Insert(_, _)
Insert(x, s) ==
    IF s = <<>> THEN <<x>>
    ELSE IF StrLess(s[1], x) THEN <<s[1]>> \o Insert(x, Tail(s))
    ELSE <<x>> \o s

RECURSIVE sorted(_)
sorted(s) == IF s = <<>> THEN <<>> ELSE Insert(s[1], sorted(Tail(s)))

\* str.strip(): leading and trailing whitespace removed.
RECURSIVE LStrip(_)
LStrip(s) ==
    IF s # <<>> /\ s[1] \in Whitespace THEN LStrip(Tail(s)) ELSE s

RECURSIVE RStrip(_)
RStrip(s) ==
    IF s # <<>> /\ s[Len(s)] \in Whitespace
    THEN RStrip(SubSeq(s, 1, Len(s) - 1)) ELSE s

strip(s) == RStrip(LStrip(s))

\* re.compile('\s+').sub(' ', s): every maximal whitespace run becomes ' '.
RECURSIVE WhitespaceSub(_)
WhitespaceSub(s) ==
    IF s = <<>> THEN <<>>
    ELSE IF s[1] \in Whitespace THEN <<" ">> \o WhitespaceSub(LStrip(s))
    ELSE <<s[1]>> \o WhitespaceSub(Tail(s))

_normalize_whitespaceNoStrip(text) == WhitespaceSub(text)

_normalize_whitespace(text) == WhitespaceSub(strip(text))

(***************************************************************************)
(* BuiltIn's assertion primitives: pass (TRUE) or raise (FALSE).           *)
(***************************************************************************)
should_be_equal(first, second) == first = second

\* Glob matching: '*' matches any run of characters, '?' any one character.
RECURSIVE Matches(_, _)
Matches(string, pattern) ==
    IF pattern = <<>> THEN string = <<>>
    ELSE IF pattern[1] = "*"
         THEN Matches(string, Tail(pattern))
              \/ (string # <<>> /\ Matches(Tail(string), pattern))
    ELSE /\ string # <<>>
         /\ (pattern[1] = "?" \/ pattern[1] = string[1])
         /\ Matches(Tail(string), Tail(pattern))

should_match(string, pattern) == Matches(string, pattern)

\* A call comparator(actual, expected, message) of the named primitive.
Invoke(comparator, actual, expected) ==
    IF comparator = "should_match" THEN should_match(actual, expected)
    ELSE should_be_equal(actual, expected)

(***************************************************************************)
(* Elements: [tag, attrib, text, tail, children]. attrib is the dictionary *)
(* in its iteration order, a tuple of [key, value] with distinct keys.     *)
(***************************************************************************)
Keys(attrib) == [i \in 1..Len(attrib) |-> attrib[i].key]

HasKey(attrib, key) == \E i \in 1..Len(attrib) : attrib[i].key = key

\* attrib[key], for a key the dictionary holds.
Get(attrib, key) ==
    attrib[CHOOSE i \in 1..Len(attrib) : attrib[i].key = key].value

(***************************************************************************)
(* Location.                                                               *)
(***************************************************************************)
\* A location argument of None.
NoLocation == 0

\* Location.__init__ under a bug: the counters are kept per path, and a new
\* Location takes over those of the Location made for its path before.
LocationKeptChildren(h, path) ==
    Append(h, [path |-> path,
               children |->
                   IF \E i \in 1..Len(h) : h[i].path = path
                   THEN h[CHOOSE i \in 1..Len(h) : h[i].path = path].children
                   ELSE <<>>])

\* Location.__init__: a new object in the heap, its reference Len(heap).
Location(h, path) == Append(h, [path |-> path, children |-> <<>>])

\* Location.__str__
Location_str(loc) == loc.path

\* Dictionary lookup and update of _children, a tuple of [tag, n].
Has(children, tag) == \E i \in 1..Len(children) : children[i].tag = tag

Count(children, tag) ==
    children[CHOOSE i \in 1..Len(children) : children[i].tag = tag].n

Put(children, tag, n) ==
    IF Has(children, tag)
    THEN [i \in 1..Len(children) |->
            IF children[i].tag = tag THEN [tag |-> tag, n |-> n]
            ELSE children[i]]
    ELSE Append(children, [tag |-> tag, n |-> n])

\* Location.child under a bug: the index is written from the first repetition
\* without counting the first occurrence (tag[1] for the second).
Location_childOffByOne(h, self, tag) ==
    LET children == h[self].children
        n == IF Has(children, tag) THEN Count(children, tag) + 1 ELSE 0
        segment == IF n = 0 THEN Str(tag)
                   ELSE Str(tag) \o "[" \o ToString(n) \o "]"
        h1 == [h EXCEPT ![self].children = Put(children, tag, n)]
    IN  Location(h1, h[self].path \o "/" \o segment)

\* Location.child: the heap after the call; the returned Location is the
\* object made last.
Location_child(h, self, tag) ==
    LET children == h[self].children
        n == IF Has(children, tag) THEN Count(children, tag) + 1 ELSE 1
        segment == IF Has(children, tag)
                   THEN Str(tag) \o "[" \o ToString(n) \o "]"
                   ELSE Str(tag)
        h1 == [h EXCEPT ![self].children = Put(children, tag, n)]
    IN  Location(h1, h[self].path \o "/" \o segment)

(***************************************************************************)
(* ElementComparator. self is [comparator, normalizer]; st is the run so   *)
(* far: the heap of Location objects, the log of the calls made to the     *)
(* assertion primitives, and the exception raised, if any. An exception    *)
(* propagates: every method returns a run with a raised exception as it is.*)
(***************************************************************************)
NoComparator == "None"

NoFailure == [type |-> "None", message |-> ""]

Raised(st) == st.failure # NoFailure

ElementComparator(comparator, normalizer) ==
    [comparator |-> comparator, normalizer |-> normalizer]

\* ElementComparator._compare
_compare(self, st, actual, expected, message, location, comparator) ==
    IF Raised(st) THEN st
    ELSE
    LET msg == IF location # NoLocation
               THEN message \o " at '" \o Location_str(st.heap[location]) \o "'"
               ELSE message
        cmp == IF comparator = NoComparator THEN self.comparator
               ELSE comparator
    IN  IF Invoke(cmp, actual, expected)
        THEN [st EXCEPT !.log = Append(@, [check |-> message, message |-> msg,
                                           comparator |-> cmp, ok |-> TRUE])]
        ELSE [st EXCEPT !.log = Append(@, [check |-> message, message |-> msg,
                                           comparator |-> cmp, ok |-> FALSE]),
                        !.failure = [type |-> "AssertionError",
                                     message |-> msg]]

\* _compare_tags under a bug: the caller's comparator checks the tags.
_compare_tagsWithComparator(self, st, actual, expected, location) ==
    _compare(self, st, actual.tag, expected.tag, "Different tag name",
             location, NoComparator)

\* ElementComparator._compare_tags
_compare_tags(self, st, actual, expected, location) ==
    _compare(self, st, actual.tag, expected.tag, "Different tag name",
             location, "should_be_equal")

\* ElementComparator._text
_text(self, text) ==
    IF text = None \/ text = <<>> THEN <<>>
    ELSE IF ~self.normalizer THEN text
    ELSE _normalize_whitespace(text)

\* ElementComparator._compare_texts
_compare_texts(self, st, actual, expected, location) ==
    _compare(self, st, _text(self, actual.text), _text(self, expected.text),
             "Different text", location, NoComparator)

\* ElementComparator._compare_tails
_compare_tails(self, st, actual, expected, location) ==
    _compare(self, st, _text(self, actual.tail), _text(self, expected.tail),
             "Different tail text", location, NoComparator)

\* expected.attrib[key] for the i-th key of actual.attrib and the comparison
\* of the two values; KeyError for a key expected.attrib does not hold.
_compare_attribute_value(self, st, actual, expected, location, i) ==
    IF Raised(st) THEN st
    ELSE IF ~HasKey(expected.attrib, actual.attrib[i].key)
    THEN [st EXCEPT !.failure = [type |-> "KeyError",
                                 message |-> Str(actual.attrib[i].key)]]
    ELSE _compare(self, st, actual.attrib[i].value,
                  Get(expected.attrib, actual.attrib[i].key),
                  "Different value for attribute '"
                      \o Str(actual.attrib[i].key) \o "'",
                  location, NoComparator)

\* The loop of _compare_attributes over actual.attrib, from its i-th key.
RECURSIVE _compare_attribute_values(_, _, _, _, _, _)
_compare_attribute_values(self, st, actual, expected, location, i) ==
    IF Raised(st) \/ i > Len(actual.attrib) THEN st
    ELSE _compare_attribute_values(self,
             _compare_attribute_value(self, st, actual, expected, location, i),
             actual, expected, location, i + 1)

\* _compare_attributes under a bug: the values are compared without the
\* check of the attribute names before them.
_compare_attributesValuesOnly(self, st, actual, expected, location) ==
    _compare_attribute_values(self, st, actual, expected, location, 1)

\* ElementComparator._compare_attributes
_compare_attributes(self, st, actual, expected, location) ==
    _compare_attribute_values(self,
        _compare(self, st, sorted(Keys(actual.attrib)),
                 sorted(Keys(expected.attrib)), "Different attribute names",
                 location, "should_be_equal"),
        actual, expected, location, 1)

Min(a, b) == IF a < b THEN a ELSE b

RECURSIVE compare(_, _, _, _, _)

\* The tag given to location.child in the loop of _compare_children, under
\* a bug: the tag of the expected child.
ChildTagOfExpected(actual, expected, i) == expected.children[i].tag

\* The tag given to location.child in the loop of _compare_children.
ChildTag(actual, expected, i) == actual.children[i].tag

\* One turn of the loop of _compare_children: compare on the i-th pair with
\* the Location that location.child(act.tag) returned, the last of heap h.
_compare_child_pair(self, st, h, actual, expected, i) ==
    compare(self, [st EXCEPT !.heap = h], actual.children[i],
            expected.children[i], Len(h))

\* The loop of _compare_children over zip(actual, expected), from its i-th
\* pair.
RECURSIVE _compare_child_pairs(_, _, _, _, _, _)
_compare_child_pairs(self, st, actual, expected, location, i) ==
    IF Raised(st) \/ i > Min(Len(actual.children), Len(expected.children))
    THEN st
    ELSE _compare_child_pairs(self,
             _compare_child_pair(self, st,
                 Location_child(st.heap, location,
                                ChildTag(actual, expected, i)),
                 actual, expected, i),
             actual, expected, location, i + 1)

\* _compare_children after the check of the child count: the Location of
\* the top-level element is made when none was given.
_compare_children_from(self, st, actual, expected, location) ==
    IF Raised(st) THEN st
    ELSE IF location = NoLocation
    THEN _compare_child_pairs(self,
             [st EXCEPT !.heap = Location(@, Str(actual.tag))],
             actual, expected, Len(st.heap) + 1, 1)
    ELSE _compare_child_pairs(self, st, actual, expected, location, 1)

\* _compare_children under a bug: the child counts are not compared.
_compare_childrenNoCount(self, st, actual, expected, location) ==
    _compare_children_from(self, st, actual, expected, location)

\* ElementComparator._compare_children
_compare_children(self, st, actual, expected, location) ==
    _compare_children_from(self,
        _compare(self, st, Len(actual.children), Len(expected.children),
                 "Different number of child elements", location,
                 "should_be_equal"),
        actual, expected, location)

\* ElementComparator.compare under a bug: the tails are compared before
\* the texts.
compareTailsFirst(self, st, actual, expected, location) ==
    _compare_children(self,
        _compare_texts(self,
            _compare_tails(self,
                _compare_attributes(self,
                    _compare_tags(self, st, actual, expected, location),
                    actual, expected, location),
                actual, expected, location),
            actual, expected, location),
        actual, expected, location)

\* ElementComparator.compare
compare(self, st, actual, expected, location) ==
    _compare_children(self,
        _compare_tails(self,
            _compare_texts(self,
                _compare_attributes(self,
                    _compare_tags(self, st, actual, expected, location),
                    actual, expected, location),
                actual, expected, location),
            actual, expected, location),
        actual, expected, location)

(***************************************************************************)
(* XML: retrieval of elements.                                             *)
(***************************************************************************)
\* A source is an element, [string |-> FALSE, root |-> element], or a
\* string naming a document, [string |-> TRUE, root |-> the root element
\* ET.parse(...).getroot() gives for it].
ElementSource(e) == [string |-> FALSE, root |-> e]

StringSource(e) == [string |-> TRUE, root |-> e]

\* XML.parse_xml
parse_xml(source) == source.root

\* XML._get_parent
_get_parent(source) == IF source.string THEN parse_xml(source) ELSE source.root

\* XML._get_xpath
_get_xpath(xpath) == xpath

\* The descendants of an element in document order.
RECURSIVE Descendants(_)
RECURSIVE DescendantsOf(_, _)
DescendantsOf(children, i) ==
    IF i > Len(children) THEN <<>>
    ELSE <<children[i]>> \o Descendants(children[i])
         \o DescendantsOf(children, i + 1)

Descendants(element) == DescendantsOf(element.children, 1)

WithTag(elements, tag) ==
    SelectSeq(elements, LAMBDA e : tag = <<"*">> \/ e.tag = tag)

\* Element.findall for the paths of the model: '.', a tag or '*' (children),
\* './/' and a tag (descendants).
findall(element, path) ==
    CASE path = "."    -> <<element>>
      [] path = "*"    -> WithTag(element.children, <<"*">>)
      [] path = "a"    -> WithTag(element.children, <<"a">>)
      [] path = "b"    -> WithTag(element.children, <<"b">>)
      [] path = ".//a" -> WithTag(Descendants(element), <<"a">>)
      [] path = ".//b" -> WithTag(Descendants(element), <<"b">>)

\* XML.get_elements
get_elements(source, xpath) == findall(_get_parent(source), _get_xpath(xpath))

Returned(value) == [failure |-> NoFailure, value |-> value]

RaisedError(type, message) ==
    [failure |-> [type |-> type, message |-> message], value |-> <<>>]

\* get_element once the '.' case is over, under a bug: the first of several
\* matches is returned.
get_element_ofFirst(elements, xpath) ==
    IF elements = <<>>
    THEN RaisedError("RuntimeError",
                     "No element matching '" \o xpath \o "' found.")
    ELSE Returned(elements[1])

\* XML.get_element once the '.' case is over: elements is what get_elements
\* returned.
get_element_of(elements, xpath) ==
    IF elements = <<>>
    THEN RaisedError("RuntimeError",
                     "No element matching '" \o xpath \o "' found.")
    ELSE IF Len(elements) > 1
    THEN RaisedError("RuntimeError",
                     "Multiple elements (" \o ToString(Len(elements))
                         \o ") matching '" \o xpath \o "' found.")
    ELSE Returned(elements[1])

\* XML.get_element
get_element(source, xpath) ==
    IF xpath = "." THEN Returned(_get_parent(source))
    ELSE get_element_of(get_elements(source, xpath), xpath)

(***************************************************************************)
(* XML: text extraction.                                                   *)
(***************************************************************************)
\* The truth value of a text or tail: None and '' are false.
Truthy(text) == text # None /\ text # <<>>

RECURSIVE _yield_texts(_, _)
RECURSIVE _yield_texts_of(_, _)

\* The loop of _yield_texts over the children, from the i-th.
_yield_texts_of(children, i) ==
    IF i > Len(children) THEN <<>>
    ELSE _yield_texts(children[i], FALSE) \o _yield_texts_of(children, i + 1)

\* _yield_texts under a bug: the top flag is not looked at.
_yield_textsWithTail(element, top) ==
    (IF Truthy(element.text) THEN <<element.text>> ELSE <<>>)
    \o _yield_texts_of(element.children, 1)
    \o (IF Truthy(element.tail) THEN <<element.tail>> ELSE <<>>)

\* XML._yield_texts: the texts the generator yields, in order.
_yield_texts(element, top) ==
    (IF Truthy(element.text) THEN <<element.text>> ELSE <<>>)
    \o _yield_texts_of(element.children, 1)
    \o (IF Truthy(element.tail) /\ ~top THEN <<element.tail>> ELSE <<>>)

\* ''.join(texts)
RECURSIVE join(_)
join(texts) == IF texts = <<>> THEN <<>> ELSE texts[1] \o join(Tail(texts))

\* XML.get_element_text after get_element: got is what get_element did.
get_element_text_of(got, normalize_whitespace) ==
    IF got.failure # NoFailure THEN got
    ELSE IF normalize_whitespace
    THEN Returned(_normalize_whitespace(join(_yield_texts(got.value, TRUE))))
    ELSE Returned(join(_yield_texts(got.value, TRUE)))

\* XML.get_element_text
get_element_text(source, xpath, normalize_whitespace) ==
    get_element_text_of(get_element(source, xpath), normalize_whitespace)

(***************************************************************************)
(* XML: the structural assertions.                                         *)
(***************************************************************************)
\* The run of ElementComparator.compare that XML._compare_elements starts,
\* with the Location objects h of the call before still in the heap.
_compare_elements(h, source, expected, comparator, normalize_whitespace) ==
    compare(ElementComparator(comparator, normalize_whitespace),
            [heap |-> h, log |-> <<>>, failure |-> NoFailure],
            get_element(source, ".").value, get_element(expected, ".").value,
            NoLocation)

\* XML.elements_should_be_equal
elements_should_be_equal(h, source, expected, normalize_whitespace) ==
    _compare_elements(h, source, expected, "should_be_equal",
                      normalize_whitespace)

\* XML.elements_should_match
elements_should_match(h, source, expected, normalize_whitespace) ==
    _compare_elements(h, source, expected, "should_match",
                      normalize_whitespace)

(***************************************************************************)
(* The element trees the operations are called with.                       *)
(***************************************************************************)
Element(label, children) ==
    [tag |-> label.tag, attrib |-> label.attrib, text |-> label.text,
     tail |-> label.tail, children |-> children]

RECURSIVE TreesOfSize(_, _)
RECURSIVE ForestsOfSize(_, _)

\* The trees of exactly n nodes with labels in L.
TreesOfSize(L, n) ==
    IF n = 0 THEN {}
    ELSE {Element(l, f) : l \in L, f \in ForestsOfSize(L, n - 1)}

\* The sequences of trees of n nodes in all.
ForestsOfSize(L, n) ==
    IF n = 0 THEN {<<>>}
    ELSE UNION {{<<t>> \o f : t \in TreesOfSize(L, k),
                              f \in ForestsOfSize(L, n - k)} : k \in 1..n}

Trees(L, n) == UNION {TreesOfSize(L, k) : k \in 1..n}

Labels(tags, attribs, texts, tails) ==
    {[tag |-> t, attrib |-> a, text |-> x, tail |-> y] :
        t \in tags, a \in attribs, x \in texts, y \in tails}

Attr(key, value) == [key |-> key, value |-> value]

\* Trees that differ in tags and shape only.
PlainLabels == Labels({<<"a">>, <<"b">>}, {<<>>}, {None}, {None})

\* The plain trees of at most n nodes under the root tag a.
PlainRoots(n) == {t \in Trees(PlainLabels, n) : t.tag = <<"a">>}

\* Single elements that differ in every field; the dictionaries of two
\* keys come in both orders.
RichAttribs ==
    {<<>>, <<Attr(<<"k">>, <<"v">>)>>, <<Attr(<<"m">>, <<"v">>)>>,
     <<Attr(<<"k">>, <<"v">>), Attr(<<"m">>, <<"v">>)>>,
     <<Attr(<<"m">>, <<"v">>), Attr(<<"k">>, <<"v">>)>>,
     <<Attr(<<"m">>, <<"w">>), Attr(<<"k">>, <<"w">>)>>}

RichLabels ==
    Labels({<<"a">>, <<"b">>}, RichAttribs, {None, <<>>, <<"x">>},
           {None, <<>>, <<"y">>})

\* An element as the last child of <a><b/>...</a>.
InContext(e) ==
    Element([tag |-> <<"a">>, attrib |-> <<>>, text |-> None, tail |-> None],
            <<Element([tag |-> <<"b">>, attrib |-> <<>>, text |-> None,
                       tail |-> None], <<>>), e>>)

NoCall == [op |-> "none"]

NoOutcome == [failure |-> NoFailure, log |-> <<>>]

\* The state before the first call on the documents a and e.
Start(a, e) ==
    /\ docSource = a
    /\ docExpected = e
    /\ heap = <<>>
    /\ call = NoCall
    /\ outcome = NoOutcome
    /\ history = <<>>

\* The documents are two plain trees of at most n nodes.
InitPlain(n) ==
    \E trees \in {PlainRoots(n)} : \E a \in trees, e \in trees : Start(a, e)

\* The documents are two elements, or two elements in the same context.
InitPair(a, e) == Start(a, e) \/ Start(InContext(a), InContext(e))

\* The documents are two single elements with labels in L, alone or in
\* context.
InitElements(L) ==
    \E a \in L, e \in L : InitPair(Element(a, <<>>), Element(e, <<>>))

\* The state after a comparison: the Location objects of the calls before
\* are gone, those of this call are still in the heap.
Compared(op, source, expected, normalize_whitespace, st) ==
    /\ call' = [op |-> op, source |-> source, expected |-> expected,
                normalize_whitespace |-> normalize_whitespace]
    /\ outcome' = [failure |-> st.failure, log |-> st.log]
    /\ heap' = SubSeq(st.heap, Len(heap) + 1, Len(st.heap))
    /\ UNCHANGED <<docSource, docExpected>>

\* A call of XML.elements_should_be_equal
ElementsShouldBeEqual(source, expected, normalize_whitespace) ==
    Compared("elements_should_be_equal", source, expected,
             normalize_whitespace,
             elements_should_be_equal(heap, ElementSource(source),
                                      ElementSource(expected),
                                      normalize_whitespace))

\* A call of XML.elements_should_match
ElementsShouldMatch(source, expected, normalize_whitespace) ==
    Compared("elements_should_match", source, expected, normalize_whitespace,
             elements_should_match(heap, ElementSource(source),
                                   ElementSource(expected),
                                   normalize_whitespace))

(***************************************************************************)
(* Spec: comparisons of trees that differ in shape and tags, and of        *)
(* elements that differ in every field, alone and as a child.              *)
(***************************************************************************)
Init == InitPlain(MaxNodes) \/ InitElements(RichLabels)

Next ==
    /\ \/ ElementsShouldBeEqual(docSource, docExpected, FALSE)
       \/ ElementsShouldMatch(docSource, docExpected, FALSE)
    /\ UNCHANGED history

Spec == Init /\ [][Next]_vars

(***************************************************************************)
(* SpecMatch: comparisons of elements whose expected side holds patterns.  *)
(***************************************************************************)
MatchAttribs ==
    {<<>>, <<Attr(<<"k">>, <<"v">>)>>, <<Attr(<<"k">>, <<"*">>)>>,
     <<Attr(<<"?">>, <<"v">>)>>}

MatchLabels ==
    Labels({<<"a">>, <<"*">>}, MatchAttribs, {None, <<"x">>, <<"*">>},
           {None, <<"y">>, <<"?">>})

InitMatch == InitPlain(MaxNodes) \/ InitElements(MatchLabels)

NextMatch ==
    /\ \/ ElementsShouldBeEqual(docSource, docExpected, FALSE)
       \/ ElementsShouldMatch(docSource, docExpected, FALSE)
    /\ UNCHANGED history

SpecMatch == InitMatch /\ [][NextMatch]_vars

(***************************************************************************)
(* SpecNorm: comparisons of elements whose texts, tails and attribute      *)
(* values differ in whitespace, with and without normalization.            *)
(***************************************************************************)
RECURSIVE Strings(_, _)
Strings(chars, n) ==
    IF n = 0 THEN {<<>>}
    ELSE {<<>>} \cup {<<c>> \o t : c \in chars, t \in Strings(chars, n - 1)}

WhitespaceTexts ==
    Strings({"x", " "}, MaxTextLen)
    \cup {<<"\n">>, <<"x", "\n", "x">>, <<"x", "\n", " ", "x">>,
          <<"\n", "x">>}

Plain(tag) == [tag |-> tag, attrib |-> <<>>, text |-> None, tail |-> None]

WhitespaceElements(x, y) ==
    {<<Element([Plain(<<"a">>) EXCEPT !.text = x], <<>>),
       Element([Plain(<<"a">>) EXCEPT !.text = y], <<>>)>>,
     <<Element([Plain(<<"a">>) EXCEPT !.tail = x], <<>>),
       Element([Plain(<<"a">>) EXCEPT !.tail = y], <<>>)>>}
    \cup (IF x = None \/ y = None THEN {}
          ELSE {<<Element([Plain(<<"a">>) EXCEPT
                             !.attrib = <<Attr(<<"k">>, x)>>], <<>>),
                  Element([Plain(<<"a">>) EXCEPT
                             !.attrib = <<Attr(<<"k">>, y)>>], <<>>)>>})

InitNorm ==
    \E texts \in {WhitespaceTexts \cup {None}} :
        \E x \in texts, y \in texts :
            \E p \in WhitespaceElements(x, y) : InitPair(p[1], p[2])

NextNorm ==
    /\ \/ \E n \in BOOLEAN : ElementsShouldBeEqual(docSource, docExpected, n)
       \/ \E n \in BOOLEAN : ElementsShouldMatch(docSource, docExpected, n)
    /\ UNCHANGED history

SpecNorm == InitNorm /\ [][NextNorm]_vars

(***************************************************************************)
(* SpecRepeat: comparisons one after the other through one library         *)
(* instance, of the two documents in either order and of each with itself. *)
(***************************************************************************)
InitRepeat == InitPlain(MaxNodes - 1)

\* history holds the call made before the one in call, and its failure.
NextRepeat ==
    /\ \/ \E s \in {docSource, docExpected}, e \in {docSource, docExpected} :
              ElementsShouldBeEqual(s, e, FALSE)
       \/ ElementsShouldMatch(docSource, docExpected, FALSE)
    /\ history' = IF call.op = "none" THEN <<>>
                  ELSE <<[call |-> call, failure |-> outcome.failure]>>

SpecRepeat == InitRepeat /\ [][NextRepeat]_vars

(***************************************************************************)
(* SpecLocation: child() calls on Location objects.                        *)
(***************************************************************************)
InitLocation ==
    /\ docSource = <<>>
    /\ docExpected = <<>>
    /\ \E path \in {"a", "a/b"} : heap = Location(<<>>, path)
    /\ call = NoCall
    /\ outcome = NoOutcome
    /\ history = <<>>

\* location.child(tag) on the Location object self; history records the
\* calls made, the path self had when each was made and the object returned.
Child(self, tag) ==
    /\ Len(history) < MaxCalls
    /\ heap' = Location_child(heap, self, tag)
    /\ call' = [op |-> "child", self |-> self, tag |-> tag]
    /\ outcome' = [failure |-> NoFailure, returned |-> Len(heap) + 1]
    /\ history' = Append(history, [self |-> self, tag |-> tag,
                                   path |-> heap[self].path,
                                   returned |-> Len(heap) + 1])
    /\ UNCHANGED <<docSource, docExpected>>

NextLocation ==
    \E self \in 1..Len(heap), tag \in {<<"b">>, <<"c">>} : Child(self, tag)

SpecLocation == InitLocation /\ [][NextLocation]_vars

\* The number of the first i calls made on the object and with the tag of
\* the i-th call.
Occurrence(i) ==
    Cardinality({j \in 1..i : /\ history[j].self = history[i].self
                              /\ history[j].tag = history[i].tag})

Index(k) == IF k = 1 THEN "" ELSE "[" \o ToString(k) \o "]"

\* C3: the k-th child(tag) call on one Location of path P returned a
\* Location of path P/tag for k = 1 and P/tag[k] for k >= 2, k counting the
\* calls on that object with that tag only, and the path of the object
\* called still is P after all the calls made since.
C3_ChildPath ==
    \A i \in 1..Len(history) :
        /\ heap[history[i].returned].path =
               history[i].path \o "/" \o Str(history[i].tag)
                   \o Index(Occurrence(i))
        /\ heap[history[i].self].path = history[i].path

\* b[2] was returned by a Location after a call with another tag on it and
\* a call with the same tag on the Location it had returned first.
C3_Witness ==
    \E i, j, l, m \in 1..Len(history) :
        /\ j < l /\ l < i /\ j < m /\ m < i
        /\ history[j].self = history[i].self
        /\ history[j].tag = history[i].tag
        /\ history[m].self = history[i].self
        /\ history[m].tag # history[i].tag
        /\ history[l].self = history[j].returned
        /\ history[l].tag = history[i].tag
        /\ heap[history[i].returned].path = "a/b[2]"

(***************************************************************************)
(* SpecText: text extraction from the elements of a document.              *)
(***************************************************************************)
\* The root of a document: <a> with a text and no tail.
TextRoots == Labels({<<"a">>}, {<<>>}, {None, <<"X">>, <<"Y">>}, {None})

\* The elements below the root: <b> with a text and a tail.
TextLabels ==
    Labels({<<"b">>}, {<<>>}, {None, <<"X">>, <<"Y">>}, {None, <<"Z">>})

\* The documents of at most n elements.
TextTrees(n) ==
    {Element(l, f) : l \in TextRoots,
                     f \in UNION {ForestsOfSize(TextLabels, k) : k \in 0..(n - 1)}}

\* The element and its descendants.
Subelements(e) == {e} \cup {Descendants(e)[i] : i \in 1..Len(Descendants(e))}

InitText ==
    /\ docSource \in TextTrees(MaxTextNodes)
    /\ docExpected = <<>>
    /\ heap = <<>>
    /\ call = NoCall
    /\ outcome = NoOutcome
    /\ history = <<>>

\* A call of XML.get_element_text
GetElementText(element, xpath, normalize_whitespace) ==
    /\ call' = [op |-> "get_element_text", source |-> element,
                xpath |-> xpath,
                normalize_whitespace |-> normalize_whitespace]
    /\ outcome' = get_element_text(ElementSource(element), xpath,
                                   normalize_whitespace)
    /\ UNCHANGED <<docSource, docExpected, heap, history>>

NextText ==
    \E element \in Subelements(docSource), xpath \in {".", "*"},
       n \in BOOLEAN : GetElementText(element, xpath, n)

SpecText == InitText /\ [][NextText]_vars

(***************************************************************************)
(* SpecXPath: retrieval of elements from a document.                       *)
(***************************************************************************)
XPaths == {".", "*", "a", "b", ".//a", ".//b"}

InitXPath ==
    /\ docSource \in Trees(PlainLabels, MaxNodes)
    /\ docExpected = <<>>
    /\ heap = <<>>
    /\ call = NoCall
    /\ outcome = NoOutcome
    /\ history = <<>>

\* A call of XML.get_element
GetElement(source, xpath) ==
    /\ call' = [op |-> "get_element", source |-> source, xpath |-> xpath]
    /\ outcome' = get_element(source, xpath)
    /\ UNCHANGED <<docSource, docExpected, heap, history>>

\* A call of XML.get_elements
GetElements(source, xpath) ==
    /\ call' = [op |-> "get_elements", source |-> source, xpath |-> xpath]
    /\ outcome' = Returned(get_elements(source, xpath))
    /\ UNCHANGED <<docSource, docExpected, heap, history>>

NextXPath ==
    \E source \in {ElementSource(docSource), StringSource(docSource)},
       xpath \in XPaths :
        \/ GetElement(source, xpath)
        \/ GetElements(source, xpath)

SpecXPath == InitXPath /\ [][NextXPath]_vars

(***************************************************************************)
(* The vocabulary of the claims about comparisons.                         *)
(***************************************************************************)
\* An absent text or tail counts as the empty string.
TextOf(t) == IF t = None THEN <<>> ELSE t

KeySet(element) == {element.attrib[i].key : i \in 1..Len(element.attrib)}

ValueOf(element, key) ==
    element.attrib[CHOOSE i \in 1..Len(element.attrib) :
                       element.attrib[i].key = key].value

\* Equality of two element trees, children paired by position.
RECURSIVE ElementsEqual(_, _)
ElementsEqual(a, e) ==
    /\ a.tag = e.tag
    /\ KeySet(a) = KeySet(e)
    /\ \A k \in KeySet(a) : ValueOf(a, k) = ValueOf(e, k)
    /\ TextOf(a.text) = TextOf(e.text)
    /\ TextOf(a.tail) = TextOf(e.tail)
    /\ Len(a.children) = Len(e.children)
    /\ \A i \in 1..Len(a.children) :
           ElementsEqual(a.children[i], e.children[i])

\* Whitespace normalization as the specification words it: no whitespace
\* at either end, one space for every whitespace run between two words.
RECURSIVE NormalForm(_)
RECURSIVE NormalRest(_)
NormalRest(s) ==
    IF \A i \in 1..Len(s) : s[i] \in Whitespace THEN <<>>
    ELSE IF s[1] \in Whitespace THEN <<" ">> \o NormalForm(s)
    ELSE <<s[1]>> \o NormalRest(Tail(s))

NormalForm(s) ==
    IF s = <<>> THEN <<>>
    ELSE IF s[1] \in Whitespace THEN NormalForm(Tail(s))
    ELSE <<s[1]>> \o NormalRest(Tail(s))

\* The text or tail a comparison called with c compares.
ComparedText(c, t) ==
    IF c.normalize_whitespace THEN NormalForm(TextOf(t)) ELSE TextOf(t)

\* The check the caller of c selected.
Selected(c) ==
    IF c.op = "elements_should_match" THEN "should_match"
    ELSE "should_be_equal"

Check(name, ok) == [check |-> name, ok |-> ok]

ValueCheck(key) == "Different value for attribute '" \o Str(key) \o "'"

\* The checks of one pair of nodes in their order, each with its verdict;
\* the attribute values only when the names agree.
NodeChecks(c, a, e) ==
    <<Check("Different tag name", a.tag = e.tag),
      Check("Different attribute names", KeySet(a) = KeySet(e))>>
    \o (IF KeySet(a) = KeySet(e)
        THEN [i \in 1..Len(a.attrib) |->
                Check(ValueCheck(a.attrib[i].key),
                      Invoke(Selected(c), a.attrib[i].value,
                             ValueOf(e, a.attrib[i].key)))]
        ELSE <<>>)
    \o <<Check("Different text",
               Invoke(Selected(c), ComparedText(c, a.text),
                      ComparedText(c, e.text))),
         Check("Different tail text",
               Invoke(Selected(c), ComparedText(c, a.tail),
                      ComparedText(c, e.tail))),
         Check("Different number of child elements",
               Len(a.children) = Len(e.children))>>

AllPass(checks) == \A i \in 1..Len(checks) : checks[i].ok

\* The checks of two trees in document order: a node, then the subtree of
\* each pair of children in turn.
RECURSIVE AllChecks(_, _, _)
RECURSIVE ChildChecks(_, _, _, _)
ChildChecks(c, a, e, i) ==
    IF i > Len(a.children) \/ i > Len(e.children) THEN <<>>
    ELSE AllChecks(c, a.children[i], e.children[i])
         \o ChildChecks(c, a, e, i + 1)

AllChecks(c, a, e) == NodeChecks(c, a, e) \o ChildChecks(c, a, e, 1)

\* The checks up to the first that fails, that one included.
RECURSIVE UpToFirstFailure(_)
UpToFirstFailure(checks) ==
    IF checks = <<>> THEN <<>>
    ELSE IF ~checks[1].ok THEN <<checks[1]>>
    ELSE <<checks[1]>> \o UpToFirstFailure(Tail(checks))

\* The calls made to the assertion primitives, as checks.
Made(log) == [i \in 1..Len(log) |-> Check(log[i].check, log[i].ok)]

NodeOk(c, a, e) == AllPass(NodeChecks(c, a, e))

RECURSIVE TreeOk(_, _, _)
TreeOk(c, a, e) ==
    /\ NodeOk(c, a, e)
    /\ \A i \in 1..Len(a.children) :
           TreeOk(c, a.children[i], e.children[i])

\* The place of the first node pair, in document order, at which a check
\* fails, as the child positions from the top-level pair down to it.
RECURSIVE FailPath(_, _, _)
FailPathFrom(c, a, e, i) ==
    <<i>> \o FailPath(c, a.children[i], e.children[i])

FailPath(c, a, e) ==
    IF ~NodeOk(c, a, e) THEN <<>>
    ELSE FailPathFrom(c, a, e,
             CHOOSE i \in 1..Len(a.children) :
                 /\ ~TreeOk(c, a.children[i], e.children[i])
                 /\ \A j \in 1..(i - 1) :
                        TreeOk(c, a.children[j], e.children[j]))

RECURSIVE NodeAt(_, _)
NodeAt(element, path) ==
    IF path = <<>> THEN element
    ELSE NodeAt(element.children[path[1]], Tail(path))

\* How many of the first i children of the element carry the tag of the
\* i-th.
SameTagUpTo(element, i) ==
    Cardinality({j \in 1..i : element.children[j].tag = element.children[i].tag})

\* The segments '/tag' or '/tag[n]' of the path down from an element.
RECURSIVE Segments(_, _)
Segments(element, path) ==
    IF path = <<>> THEN ""
    ELSE "/" \o Str(element.children[path[1]].tag)
         \o Index(SameTagUpTo(element, path[1]))
         \o Segments(element.children[path[1]], Tail(path))

Annotated(check, element, path) ==
    IF path = <<>> THEN check
    ELSE check \o " at '" \o Str(element.tag) \o Segments(element, path) \o "'"

IsComparison ==
    call.op \in {"elements_should_be_equal", "elements_should_match"}

Failed == outcome.failure # NoFailure

FailedCheck == outcome.log[Len(outcome.log)].check

(***************************************************************************)
(* Claims checked under Spec.                                              *)
(***************************************************************************)
\* C1: elements_should_be_equal without whitespace normalization completes
\* without failure if and only if the two trees are equal: tags, attribute
\* key sets and the value of every key, text and tail (absent counting as
\* empty), the number of children, and the children pairwise by position.
C1_EqualIff ==
    (call.op = "elements_should_be_equal" /\ ~call.normalize_whitespace)
        => (~Failed <=> ElementsEqual(call.source, call.expected))

\* An element under a parent passed although its attributes come in
\* another order and its text is absent on one side and empty on the other.
C1_Witness ==
    /\ call.op = "elements_should_be_equal" /\ ~Failed
    /\ Len(call.source.children) = 2
    /\ call.source.children[2].attrib # call.expected.children[2].attrib
    /\ Len(call.source.children[2].attrib) = 2
    /\ call.source.children[2].text = None
    /\ call.expected.children[2].text = <<>>

\* C2: the checks a comparison makes are those of each node in the order
\* tag, attribute names, attribute values in the order of the actual
\* element's attributes, text, tail, child count, then those of each child
\* pair's whole subtree in document order, up to the first check that
\* fails; that check's failure is the one signalled, and none without it.
C2_CheckOrder ==
    IsComparison =>
        /\ Made(outcome.log)
               = UpToFirstFailure(AllChecks(call, call.source, call.expected))
        /\ Failed <=> ~AllPass(outcome.log)
        /\ Failed =>
               /\ outcome.failure.type = "AssertionError"
               /\ outcome.failure.message
                      = outcome.log[Len(outcome.log)].message

\* A comparison stopped in the subtree of the first child pair although the
\* second child pair differs too.
C2_Witness ==
    /\ IsComparison /\ Failed
    /\ Len(call.source.children) = 2
    /\ Len(call.expected.children) = 2
    /\ call.source.children[2].tag # call.expected.children[2].tag
    /\ Len(call.source.children[1].children) = 1
    /\ outcome.failure.message = "Different tag name at 'a/b/a'"

\* C4: a failure of a check on a descendant is annotated with the tag of
\* the top-level actual element and one /segment per level down to the
\* node checked, the tag of the actual child with [n] exactly when it is
\* the n-th (n >= 2) child of that tag under its parent; a failure of a
\* check on the top-level element carries no location.
C4_FailureLocation ==
    (IsComparison /\ Failed) =>
        outcome.failure.message
            = Annotated(FailedCheck, call.source,
                        FailPath(call, call.source, call.expected))

\* The second <b> differs, with a child of another tag between the two:
\* the location is a/b[2].
C4_Witness ==
    /\ IsComparison /\ Failed
    /\ Len(call.source.children) = 3
    /\ call.source.children[1].tag = <<"b">>
    /\ call.source.children[2].tag = <<"a">>
    /\ call.source.children[3].tag = <<"b">>
    /\ outcome.failure.message = "Different tag name at 'a/b[2]'"

FixedChecks ==
    {"Different tag name", "Different attribute names", "Different text",
     "Different tail text", "Different number of child elements"}

\* The i-th call of the log compares attribute values, and the calls since
\* the last check of attribute names do too, and that check passed.
AfterNames(log, i) ==
    \E j \in 1..(i - 1) :
        /\ log[j].check = "Different attribute names" /\ log[j].ok
        /\ \A k \in (j + 1)..i : log[k].check \notin FixedChecks

\* C6: when the attribute key sets of a compared node pair differ, the
\* attribute comparison fails with 'Different attribute names', whatever
\* the values of the shared keys; 'Different value for attribute' is
\* signalled only for equal key sets; no value is compared, and no key
\* looked up in the expected element, before the key sets were found equal.
C6_AttributeNames ==
    IsComparison =>
        /\ outcome.failure.type # "KeyError"
        /\ \A i \in 1..Len(outcome.log) :
               outcome.log[i].check \notin FixedChecks
                   => AfterNames(outcome.log, i)
        /\ Failed =>
               /\ FailedCheck \notin FixedChecks =>
                      KeySet(NodeAt(call.source,
                                    FailPath(call, call.source, call.expected)))
                      = KeySet(NodeAt(call.expected,
                                      FailPath(call, call.source, call.expected)))
               /\ ( /\ NodeAt(call.source,
                               FailPath(call, call.source, call.expected)).tag
                        = NodeAt(call.expected,
                                 FailPath(call, call.source, call.expected)).tag
                    /\ KeySet(NodeAt(call.source,
                                     FailPath(call, call.source, call.expected)))
                        # KeySet(NodeAt(call.expected,
                                        FailPath(call, call.source, call.expected))))
                   => FailedCheck = "Different attribute names"

\* A child with the attribute k of the same value on both sides and m on
\* the expected side only failed with 'Different attribute names'.
C6_Witness ==
    /\ IsComparison /\ Failed
    /\ Len(call.source.children) = 2
    /\ call.source.children[2].attrib = <<Attr(<<"k">>, <<"v">>)>>
    /\ call.expected.children[2].attrib
           = <<Attr(<<"m">>, <<"v">>), Attr(<<"k">>, <<"v">>)>>
    /\ outcome.failure.message = "Different attribute names at 'a/a'"

(***************************************************************************)
(* Claims checked under SpecMatch.                                         *)
(***************************************************************************)
StrictChecks ==
    {"Different tag name", "Different attribute names",
     "Different number of child elements"}

\* C7: in both calling modes the tags, the sorted attribute names and the
\* child counts are checked with should_be_equal and the attribute values,
\* texts and tails with the check the caller selected; so a comparison
\* passes exactly when every node pair has equal tags, equal attribute key
\* sets and equal child counts and values, text and tail the selected check
\* accepts.
C7_StrictChecks ==
    IsComparison =>
        /\ \A i \in 1..Len(outcome.log) :
               outcome.log[i].comparator
                   = IF outcome.log[i].check \in StrictChecks
                     THEN "should_be_equal" ELSE Selected(call)
        /\ ~Failed <=> TreeOk(call, call.source, call.expected)

\* In match mode the tag * on the expected side did not accept the tag a.
C7_Witness ==
    /\ call.op = "elements_should_match" /\ Failed
    /\ call.source.tag = <<"a">> /\ call.expected.tag = <<"*">>
    /\ call.source.attrib = call.expected.attrib
    /\ call.expected.text = <<"*">> /\ call.source.text = <<"x">>
    /\ outcome.failure.message = "Different tag name"

(***************************************************************************)
(* Claims checked under SpecNorm.                                          *)
(***************************************************************************)
\* C8: with whitespace normalization a comparison passes exactly when, on
\* every node pair, the selected check accepts the normal forms of the two
\* texts and of the two tails (no whitespace at either end, every run one
\* space, absent as empty) and the attribute values as they are, the tags
\* and attribute names being equal as they are.
C8_Normalization ==
    (IsComparison /\ call.normalize_whitespace) =>
        (~Failed <=> TreeOk(call, call.source, call.expected))

\* A child whose text differs in whitespace runs only passed as equal.
C8_Witness ==
    /\ call.op = "elements_should_be_equal" /\ call.normalize_whitespace
    /\ ~Failed
    /\ Len(call.source.children) = 2
    /\ call.source.children[2].text = <<" ", "x", " ", " ">>
    /\ call.expected.children[2].text = <<"x">>

\* An attribute value that differs in whitespace only failed.
C8_WitnessAttribute ==
    /\ call.op = "elements_should_be_equal" /\ call.normalize_whitespace
    /\ Failed
    /\ call.source.attrib = <<Attr(<<"k">>, <<"x", " ">>)>>
    /\ call.expected.attrib = <<Attr(<<"k">>, <<"x">>)>>

(***************************************************************************)
(* Claims checked under SpecRepeat.                                        *)
(***************************************************************************)
\* What a run of the comparator leaves in outcome.
OutcomeOf(st) == [failure |-> st.failure, log |-> st.log]

\* C10: after any comparisons made before, a comparison has the outcome
\* (failure, message with location, checks made) of the same comparison
\* made first, with no Location object in the heap.
C10_NoCarriedState ==
    IsComparison =>
        outcome = OutcomeOf(_compare_elements(<<>>,
                                ElementSource(call.source),
                                ElementSource(call.expected),
                                Selected(call), call.normalize_whitespace))

\* The comparison made before was the same and failed at a/b[2], and this
\* one failed at a/b[2] again.
C10_Witness ==
    /\ IsComparison /\ Failed
    /\ Len(history) = 1
    /\ history[1].call = call
    /\ history[1].failure = outcome.failure
    /\ outcome.failure.message = "Different tag name at 'a/b[2]'"

(***************************************************************************)
(* Claims checked under SpecText.                                          *)
(***************************************************************************)
\* The text inside an element: its own text, then for each child in order
\* the text inside the child and the child's tail.
RECURSIVE InnerText(_)
RECURSIVE InnerTextOfChildren(_, _)
InnerTextOfChildren(element, i) ==
    IF i > Len(element.children) THEN <<>>
    ELSE InnerText(element.children[i])
         \o TextOf(element.children[i].tail)
         \o InnerTextOfChildren(element, i + 1)

InnerText(element) == TextOf(element.text) \o InnerTextOfChildren(element, 1)

\* C5: get_element_text without normalization returns the element's own
\* text followed, for each child in order, by the child's extracted text
\* and the child's tail; the tail of the element the text is taken of is
\* no part of it, that of every proper descendant is, and an absent text or
\* tail contributes nothing.  For <a>X<b>Y</b>Z</a> the result is XYZ.
C5_ElementText ==
    (call.op = "get_element_text" /\ ~call.normalize_whitespace) =>
        /\ call.xpath = "." =>
               outcome = Returned(InnerText(call.source))
        /\ (call.xpath = "*" /\ Len(call.source.children) = 1) =>
               outcome = Returned(InnerText(call.source.children[1]))

\* <b>X<b>Y</b>Z</b>, itself a child in the document and followed by the
\* tail Z, gave XYZ.
C5_Witness ==
    /\ call.op = "get_element_text" /\ ~call.normalize_whitespace
    /\ call.xpath = "."
    /\ call.source # docSource
    /\ call.source.text = <<"X">>
    /\ call.source.tail = <<"Z">>
    /\ Len(call.source.children) = 1
    /\ call.source.children[1].tag = <<"b">>
    /\ call.source.children[1].text = <<"Y">>
    /\ call.source.children[1].tail = <<"Z">>
    /\ outcome.value = <<"X", "Y", "Z">>

\* The document <a>X<b>Y</b>Z</a> gave XYZ.
C5_WitnessExample ==
    /\ call.op = "get_element_text" /\ ~call.normalize_whitespace
    /\ call.xpath = "."
    /\ call.source = docSource
    /\ call.source.tag = <<"a">> /\ call.source.text = <<"X">>
    /\ Len(call.source.children) = 1
    /\ call.source.children[1].text = <<"Y">>
    /\ call.source.children[1].tail = <<"Z">>
    /\ call.source.children[1].children = <<>>
    /\ outcome.value = <<"X", "Y", "Z">>

(***************************************************************************)
(* Claims checked under SpecXPath.                                         *)
(***************************************************************************)
\* The elements of the source of the call that match its xpath.
Matching == findall(call.source.root, call.xpath)

NoMatch == "No element matching '" \o call.xpath \o "' found."

MultipleMatches ==
    "Multiple elements (" \o ToString(Len(Matching)) \o ") matching '"
        \o call.xpath \o "' found."

\* C9: get_element with an xpath other than '.' returns the match when
\* exactly one element matches, fails with the no-match error exactly when
\* none matches and with the multiple-match error exactly when more than
\* one matches; with '.' it returns the source element itself and never
\* fails; get_elements never fails and returns all the matches in document
\* order, none when nothing matches.
C9_Cardinality ==
    /\ (call.op = "get_element" /\ call.xpath = ".") =>
           outcome = Returned(call.source.root)
    /\ (call.op = "get_element" /\ call.xpath # ".") =>
           /\ Len(Matching) = 1 => outcome = Returned(Matching[1])
           /\ Len(Matching) = 0
                  <=> outcome.failure
                         = [type |-> "RuntimeError", message |-> NoMatch]
           /\ Len(Matching) > 1
                  <=> outcome.failure
                         = [type |-> "RuntimeError",
                            message |-> MultipleMatches]
    /\ call.op = "get_elements" => outcome = Returned(Matching)

\* Two descendants <b> of the source made get_element fail.
C9_Witness ==
    /\ call.op = "get_element"
    /\ outcome.failure.message
           = "Multiple elements (2) matching './/b' found."

\* get_element with '.' returned a source that has children.
C9_WitnessSelf ==
    /\ call.op = "get_element" /\ call.xpath = "."
    /\ call.source.root.children # <<>>
    /\ outcome.value = call.source.root

====
